---- MODULE Spec2Model ----
(***************************************************************************)
(* MoltID: trust scoring (services/trust.ts), the vouch graph and agent    *)
(* store (services/agent.ts, db/schema.sql) and the HTTP routes that drive *)
(* them (routes/agents.ts).                                                *)
(*                                                                         *)
(* Time is counted in whole seconds.  The code subtracts two millisecond   *)
(* timestamps and divides by 1000*60*60*24; created_at is written by       *)
(* SQLite's datetime('now'), which has second resolution, so the factor    *)
(* 1000 cancels: floor((n - 1000c) / 86400000) = floor((n div 1000 - c) /  *)
(* 86400).                                                                 *)
(***************************************************************************)
EXTENDS Integers, FiniteSets, Sequences, Bags, TLC

VARIABLES
    agents,     \* table agents: id -> row (the domain is the set of stored ids)
    vouches,    \* table vouches: a bag of rows [from_agent_id, to_agent_id]
    now,        \* the wall clock, Date.now(), in seconds
    req,        \* the HTTP requests and direct scorer calls in flight: a bag
                \* of request records, each between two awaited operations
    resp,       \* the HTTP response sent by the step just taken, if any
    ret         \* the value returned by the last direct call of the scorer
                \* (none once a request has been handled since)

vars == <<agents, vouches, now, req, resp, ret>>

----------------------------------------------------------------------------
(* Bounds of the model *)

\* ids the registration route can hand out (nanoid, modelled as 1..MaxAgents)
MaxAgents == 2
\* concurrent HTTP requests
MaxProcs == 2
\* half-day clock ticks in the route specification
MaxTicks == 2
\* voucher rows drawn for the scorer specification
MaxVouchers == 8
\* half-day clock ticks in the scorer specification
MaxScorerTicks == 2

----------------------------------------------------------------------------
(* Program constants: services/trust.ts lines 14-20 *)

MOLTBOOK_VERIFIED_POINTS == 20
KARMA_MAX_POINTS == 30
KARMA_DIVISOR == 100
AGE_MAX_POINTS == 20
VOUCH_POINTS_EACH == 5
VOUCH_MAX_POINTS == 30
MAX_TOTAL_SCORE == 100

\* (1000 * 60 * 60 * 24) milliseconds, in seconds
DAY == 60 * 60 * 24
HalfDay == DAY \div 2

Min(a, b) == IF a <= b THEN a ELSE b
Max(a, b) == IF a >= b THEN a ELSE b

\* a nullable SQL value: <<>> is NULL, <<v>> is the value v
NULL == <<>>
Some(v) == <<v>>

Statuses == {"pending", "active", "suspended"}

\* moltbook_username NULL (create stores `input.moltbook_username || null`)
NoUsername == ""

----------------------------------------------------------------------------
(* Strings and their JSON text.  A string is the sequence of its UTF-16     *)
(* code units, each a one-character string.  A code unit the module's text  *)
(* cannot hold is written by name, "U+" and its four hexadecimal digits:    *)
(* U+0000, the grave accent U+0060, and the surrogates U+D800 to U+DFFF, a  *)
(* character above U+FFFF being a high surrogate followed by a low one.     *)

\* the code units U+0001 to U+007F, Ascii[c] being the one of code c; a
\* control character TLA+ has no escape for stands as itself, and the grave
\* accent, which a TLA+ string cannot hold, is written by name
Ascii ==
    <<"", "", "", "", "", "", "", "",
      "\t", "\n", "", "\f", "\r", "", "", "",
      "", "", "", "", "", "", "", "",
      "", "", "", "", "", "", "", " ",
      "!", "\"", "#", "$", "%", "&", "'", "(",
      ")", "*", "+", ",", "-", ".", "/", "0",
      "1", "2", "3", "4", "5", "6", "7", "8",
      "9", ":", ";", "<", "=", ">", "?", "@",
      "A", "B", "C", "D", "E", "F", "G", "H",
      "I", "J", "K", "L", "M", "N", "O", "P",
      "Q", "R", "S", "T", "U", "V", "W", "X",
      "Y", "Z", "[", "\\", "]", "^", "_", "U+0060",
      "a", "b", "c", "d", "e", "f", "g", "h",
      "i", "j", "k", "l", "m", "n", "o", "p",
      "q", "r", "s", "t", "u", "v", "w", "x",
      "y", "z", "{", "|", "}", "~", "" >>

HexDigits ==
    <<"0", "1", "2", "3", "4", "5", "6", "7",
      "8", "9", "a", "b", "c", "d", "e", "f">>
HexUpper ==
    <<"0", "1", "2", "3", "4", "5", "6", "7",
      "8", "9", "A", "B", "C", "D", "E", "F">>

\* the value of a hexadecimal digit of either case
HexValue(ch) ==
    (CHOOSE k \in 1..16 : ch \in {HexDigits[k], HexUpper[k]}) - 1

HexSet == {HexDigits[k] : k \in 1..16}

\* the surrogate code units, U+D800 to U+DBFF and U+DC00 to U+DFFF
SurrogateNames(lead) ==
    {"U+d" \o a \o b \o c : a \in lead, b \in HexSet, c \in HexSet}
HighSurrogates == SurrogateNames({"8", "9", "a", "b"})
LowSurrogates == SurrogateNames({"c", "d", "e", "f"})
Surrogates == HighSurrogates \cup LowSurrogates

\* a code unit written by name
Named(ch) == Len(ch) > 1
IsHighSurrogate(ch) == Named(ch) /\ ch \in HighSurrogates
IsLowSurrogate(ch) == Named(ch) /\ ch \in LowSurrogates

\* the last three hexadecimal digits of a surrogate
SurrogateDigits(ch) ==
    CHOOSE d \in {"8", "9", "a", "b", "c", "d", "e", "f"} \X HexSet \X HexSet :
        ch = "U+d" \o d[1] \o d[2] \o d[3]

\* the code unit of code c; one the table does not hold is written by name
CodeUnit(c) ==
    IF c \in 1..Len(Ascii) THEN Ascii[c]
    ELSE "U+" \o HexDigits[((c \div 4096) % 16) + 1]
              \o HexDigits[((c \div 256) % 16) + 1]
              \o HexDigits[((c \div 16) % 16) + 1]
              \o HexDigits[(c % 16) + 1]

\* JSON.stringify of one code unit of a string that is not half of a
\* surrogate pair: the quote and the backslash take a backslash, backspace,
\* tab, line feed, form feed and carriage return their letter, every other
\* code unit below U+0020 the form \u00xx and a surrogate the form \udxxx
JsonEscapeChar(ch) ==
    IF ch \in {"\"", "\\"} THEN <<"\\", ch>>
    ELSE IF ch = Ascii[8] THEN <<"\\", "b">>
    ELSE IF ch = "\t" THEN <<"\\", "t">>
    ELSE IF ch = "\n" THEN <<"\\", "n">>
    ELSE IF ch = "\f" THEN <<"\\", "f">>
    ELSE IF ch = "\r" THEN <<"\\", "r">>
    ELSE IF \E c \in 1..31 : Ascii[c] = ch
    THEN LET c == CHOOSE c \in 1..31 : Ascii[c] = ch
         IN  <<"\\", "u", "0", "0",
               HexDigits[(c \div 16) + 1], HexDigits[(c % 16) + 1]>>
    ELSE IF ch = CodeUnit(0) THEN <<"\\", "u", "0", "0", "0", "0">>
    ELSE IF Named(ch) /\ ch \in Surrogates
    THEN LET d == SurrogateDigits(ch)
         IN  <<"\\", "u", "d", d[1], d[2], d[3]>>
    ELSE <<ch>>

\* JSON.stringify of a string, without its outer quotes: a high surrogate
\* followed by a low one is one character and stands as itself
RECURSIVE JsonEscape(_)
JsonEscape(str) ==
    IF str = << >> THEN << >>
    ELSE IF /\ Len(str) >= 2
            /\ IsHighSurrogate(str[1])
            /\ IsLowSurrogate(str[2])
    THEN <<str[1], str[2]>> \o JsonEscape(SubSeq(str, 3, Len(str)))
    ELSE JsonEscapeChar(Head(str)) \o JsonEscape(Tail(str))

JsonString(str) == <<"\"">> \o JsonEscape(str) \o <<"\"">>

RECURSIVE JsonItems(_)
JsonItems(list) ==
    IF list = << >> THEN << >>
    ELSE IF Len(list) = 1 THEN JsonString(list[1])
    ELSE JsonString(Head(list)) \o <<",">> \o JsonItems(Tail(list))

\* JSON.stringify(capabilities)
JSONStringify(list) == <<"[">> \o JsonItems(list) \o <<"]">>

\* JSON.parse of the character after a backslash: b, f, n, r and t give their
\* control character, the quote, the backslash and the slash themselves
JsonUnescape(ch) ==
    IF ch = "b" THEN Ascii[8]
    ELSE IF ch = "t" THEN "\t"
    ELSE IF ch = "n" THEN "\n"
    ELSE IF ch = "f" THEN "\f"
    ELSE IF ch = "r" THEN "\r"
    ELSE ch

\* JSON.parse of a string whose opening quote precedes position i: the
\* string and the position after its closing quote; \uXXXX gives the code
\* unit of the four hexadecimal digits
RECURSIVE JsonReadString(_, _, _)
JsonReadString(text, i, cur) ==
    IF text[i] = "\\"
    THEN IF text[i + 1] = "u"
         THEN JsonReadString(text, i + 6,
                  Append(cur, CodeUnit(HexValue(text[i + 2]) * 4096
                                       + HexValue(text[i + 3]) * 256
                                       + HexValue(text[i + 4]) * 16
                                       + HexValue(text[i + 5]))))
         ELSE JsonReadString(text, i + 2,
                             Append(cur, JsonUnescape(text[i + 1])))
    ELSE IF text[i] = "\""
    THEN <<cur, i + 1>>
    ELSE JsonReadString(text, i + 1, Append(cur, text[i]))

\* JSON.parse of the text of an array of strings, read from position i
RECURSIVE JsonParseFrom(_, _, _)
JsonParseFrom(text, i, acc) ==
    IF i > Len(text) THEN acc
    ELSE IF text[i] = "\""
    THEN LET item == JsonReadString(text, i + 1, << >>)
         IN  JsonParseFrom(text, item[2], Append(acc, item[1]))
    ELSE JsonParseFrom(text, i + 1, acc)

\* JSON.parse(r.capabilities) in parseAgent
ParseCapabilities(text) == JsonParseFrom(text, 1, << >>)

----------------------------------------------------------------------------
(* The vouches table *)

Edge(f, t) == [from_agent_id |-> f, to_agent_id |-> t]

RECURSIVE SumCopies(_, _)
SumCopies(S, B) ==
    IF S = {} THEN 0
    ELSE LET e == CHOOSE x \in S : TRUE
         IN  CopiesIn(e, B) + SumCopies(S \ {e}, B)

\* SELECT COUNT(*) FROM vouches WHERE to_agent_id = ?
IncomingCount(vs, id) ==
    SumCopies({e \in BagToSet(vs) : e.to_agent_id = id}, vs)

----------------------------------------------------------------------------
(* TrustService *)

\* agent.moltbook_karma || 0
KarmaOrZero(karma) == IF karma = NULL THEN 0 ELSE karma[1]

\* Math.min(Math.floor(karma / KARMA_DIVISOR), KARMA_MAX_POINTS)
KarmaPoints(karma) ==
    Min(KarmaOrZero(karma) \div KARMA_DIVISOR, KARMA_MAX_POINTS)

\* Math.floor((Date.now() - createdAt.getTime()) / (1000 * 60 * 60 * 24))
AgeDays(created_at, t) == (t - created_at) \div DAY

\* Math.min(ageDays, AGE_MAX_POINTS)
AgePoints(created_at, t) == Min(AgeDays(created_at, t), AGE_MAX_POINTS)

VerifiedPoints(verified) == IF verified THEN MOLTBOOK_VERIFIED_POINTS ELSE 0

\* calculateScore after its first query: the score accumulated from the row
RowScore(agent, t) ==
    LET s0 == 0
        s1 == s0 + VerifiedPoints(agent.moltbook_verified)
        s2 == s1 + KarmaPoints(agent.moltbook_karma)
        s3 == s2 + AgePoints(agent.created_at, t)
    IN  s3

\* SELECT COUNT(*) FROM vouches v JOIN agents a ON v.from_agent_id = a.id
\* WHERE v.to_agent_id = ? AND a.moltbook_verified = 1
AllIncomingJoined(ag, vs, id) ==
    SumCopies({e \in BagToSet(vs) :
                  /\ e.to_agent_id = id
                  /\ e.from_agent_id \in DOMAIN ag}, vs)

\* the same count with the JOIN on v.to_agent_id: the recipient's flag decides
TargetJoinedVouches(ag, vs, id) ==
    SumCopies({e \in BagToSet(vs) :
                  /\ e.to_agent_id = id
                  /\ e.to_agent_id \in DOMAIN ag
                  /\ ag[e.to_agent_id].moltbook_verified}, vs)

VerifiedVouches(ag, vs, id) ==
    SumCopies({e \in BagToSet(vs) :
                  /\ e.to_agent_id = id
                  /\ e.from_agent_id \in DOMAIN ag
                  /\ ag[e.from_agent_id].moltbook_verified}, vs)

\* Math.min(vouchCount * VOUCH_POINTS_EACH, VOUCH_MAX_POINTS)
VouchPoints(vouchCount) ==
    Min(vouchCount * VOUCH_POINTS_EACH, VOUCH_MAX_POINTS)

\* calculateScore after its second query: add the vouch points, cap the total
FinishScore(score, vouchCount) ==
    Min(score + VouchPoints(vouchCount), MAX_TOTAL_SCORE)

calculateScore(ag, vs, t, agentId) ==
    IF agentId \notin DOMAIN ag THEN 0
    ELSE FinishScore(RowScore(ag[agentId], t), VerifiedVouches(ag, vs, agentId))

getDetails(agent, t) ==
    [ score |-> agent.trust_score,
      factors |->
        [ moltbook_verified |-> VerifiedPoints(agent.moltbook_verified),
          karma |-> KarmaPoints(agent.moltbook_karma),
          age |-> AgePoints(agent.created_at, t),
          vouches |-> VouchPoints(agent.vouch_count) ],
      moltbook_verified |-> agent.moltbook_verified,
      moltbook_karma |-> agent.moltbook_karma,
      vouch_count |-> agent.vouch_count,
      age_days |-> AgeDays(agent.created_at, t) ]

----------------------------------------------------------------------------
(* Requests *)

NoDetails == [score |-> 0,
              factors |-> [moltbook_verified |-> 0, karma |-> 0,
                           age |-> 0, vouches |-> 0],
              moltbook_verified |-> FALSE, moltbook_karma |-> NULL,
              vouch_count |-> 0, age_days |-> 0]

Resp(op, from, to, status, score, details) ==
    [op |-> op, from |-> from, to |-> to, status |-> status,
     score |-> score, details |-> details]

NoResp == Resp("none", 0, 0, 0, 0, NoDetails)

\* a response whose body holds an agent as well
AgentResp(op, to, status, score, agent) ==
    [op |-> op, from |-> 0, to |-> to, status |-> status, score |-> score,
     details |-> NoDetails, agent |-> agent]

\* parseAgent(row) on the columns the model stores
parseAgent(id, row) ==
    [ id |-> id,
      moltbook_username |-> row.moltbook_username,
      moltbook_verified |-> row.moltbook_verified,
      moltbook_karma |-> row.moltbook_karma,
      capabilities |-> IF row.capabilities = << >> THEN << >>
                       ELSE ParseCapabilities(row.capabilities),
      trust_score |-> row.trust_score,
      vouch_count |-> row.vouch_count,
      status |-> row.status,
      created_at |-> row.created_at ]

\* toPublic(agent): the eight public fields
toPublic(agent) ==
    [ id |-> agent.id,
      moltbook_username |-> agent.moltbook_username,
      moltbook_verified |-> agent.moltbook_verified,
      capabilities |-> agent.capabilities,
      trust_score |-> agent.trust_score,
      vouch_count |-> agent.vouch_count,
      status |-> agent.status,
      created_at |-> agent.created_at ]

\* toPublic(parseAgent(r))
ToPublic(id, row) == toPublic(parseAgent(id, row))

\* a returned call: at is the time of the return, clock the Date.now() the
\* call read (the time of the return when it read none)
NoRet == [op |-> "none", id |-> 0, at |-> 0, clock |-> 0, value |-> 0]

----------------------------------------------------------------------------
(* The scorer on any row the store can hold.  The rows are written straight *)
(* into the tables, as test/setup.ts createTestAgent and createTestVouch do. *)

\* the scored row is the last one inserted; the id after it is not stored
TargetId(ag) == Cardinality(DOMAIN ag)
MissingId(ag) == Cardinality(DOMAIN ag) + 1
ScorerEpoch == 100 * DAY

KarmaInputs ==
    {NULL, Some(-250), Some(0), Some(99), Some(100), Some(1500),
     Some(2500), Some(2999), Some(3000), Some(10000)}

\* age of the row at ScorerEpoch in half days (negative: created in the future)
AgeInputs == {-3, 0, 1, 2, 10, 20, 39, 40, 200}

\* a row of the table agents; capabilities holds the JSON text of the list,
\* "[]" unless a list is stored
Row(username, verified, karma, score, count, status, created) ==
    [ moltbook_username |-> username,
      moltbook_verified |-> verified,
      moltbook_karma |-> karma,
      trust_score |-> score,
      vouch_count |-> count,
      capabilities |-> JSONStringify(<< >>),
      status |-> status,
      created_at |-> created ]

\* nv verified and nu unverified vouchers, then the target row; every voucher
\* has an edge to the target
ScorerAgents(verified, karma, status, age, nv, nu, vstatus) ==
    [ i \in 1..(nv + nu + 1) |->
        IF i = nv + nu + 1
        THEN Row(NoUsername, verified, karma, 0, nv + nu, status,
                 ScorerEpoch - age * HalfDay)
        ELSE Row(NoUsername, i <= nv, NULL, 0, 0, vstatus, ScorerEpoch) ]

ScorerVouches(nv, nu) ==
    SetToBag({Edge(i, nv + nu + 1) : i \in 1..(nv + nu)})

ScorerInit ==
    /\ \E verified \in BOOLEAN, karma \in KarmaInputs, status \in Statuses,
          age \in AgeInputs, nv \in 0..MaxVouchers, nu \in 0..2,
          vstatus \in {"active", "suspended"} :
          /\ nv + nu <= MaxVouchers
          /\ agents = ScorerAgents(verified, karma, status, age, nv, nu, vstatus)
          /\ vouches = ScorerVouches(nv, nu)
    /\ now = ScorerEpoch
    /\ req = EmptyBag
    /\ resp = NoResp
    /\ ret = NoRet

\* direct calls of the scorer running at the same time
MaxScorerCalls == 1

\* a call of calculateScore between its two queries: score is the sum over
\* the row's factors, clock the Date.now() it was computed with
ScorerCall(id, score, clock) ==
    [op |-> "calculateScore", pc |-> "countVouches", from |-> 0, to |-> id,
     karma |-> 0, score |-> score, clock |-> clock]

\* a missing agent reported with the sentinel -1
MissingAsMinusOneScorerCalculate(id) ==
    /\ BagCardinality(req) < MaxScorerCalls
    /\ IF id \notin DOMAIN agents
       THEN /\ ret' = [op |-> "calculateScore", id |-> id, at |-> now,
                       clock |-> now, value |-> -1]
            /\ UNCHANGED req
       ELSE /\ req' = req (+) SetToBag({ScorerCall(id,
                                           RowScore(agents[id], now), now)})
            /\ UNCHANGED ret
    /\ UNCHANGED <<agents, vouches, now, resp>>

\* calculateScore(id) called directly: the first query, `if (!agent) return
\* 0`, and the verification, karma and age points, the age read off Date.now()
ScorerCalculate(id) ==
    /\ BagCardinality(req) < MaxScorerCalls
    /\ IF id \notin DOMAIN agents
       THEN /\ ret' = [op |-> "calculateScore", id |-> id, at |-> now,
                       clock |-> now, value |-> 0]
            /\ UNCHANGED req
       ELSE /\ req' = req (+) SetToBag({ScorerCall(id,
                                           RowScore(agents[id], now), now)})
            /\ UNCHANGED ret
    /\ UNCHANGED <<agents, vouches, now, resp>>

\* the second query writing the score it computed into the row
SavingScorerCountVouches(r) ==
    /\ r \in BagToSet(req) /\ r.op = "calculateScore" /\ r.pc = "countVouches"
    /\ ret' = [op |-> "calculateScore", id |-> r.to, at |-> now,
               clock |-> r.clock,
               value |-> FinishScore(r.score,
                             VerifiedVouches(agents, vouches, r.to))]
    /\ agents' = IF r.to \notin DOMAIN agents THEN agents
                 ELSE [agents EXCEPT ![r.to].trust_score =
                          FinishScore(r.score,
                              VerifiedVouches(agents, vouches, r.to))]
    /\ req' = req (-) SetToBag({r})
    /\ UNCHANGED <<vouches, now, resp>>

\* calculateScore, the second query, the vouch points, the cap and the return
ScorerCountVouches(r) ==
    /\ r \in BagToSet(req) /\ r.op = "calculateScore" /\ r.pc = "countVouches"
    /\ ret' = [op |-> "calculateScore", id |-> r.to, at |-> now,
               clock |-> r.clock,
               value |-> FinishScore(r.score,
                             VerifiedVouches(agents, vouches, r.to))]
    /\ req' = req (-) SetToBag({r})
    /\ UNCHANGED <<agents, vouches, now, resp>>

ScorerTick ==
    /\ now < ScorerEpoch + MaxScorerTicks * HalfDay
    /\ now' = now + HalfDay
    /\ UNCHANGED <<agents, vouches, req, resp, ret>>

ScorerNext ==
    \/ \E id \in {TargetId(agents), MissingId(agents)} : ScorerCalculate(id)
    \/ \E r \in BagToSet(req) : ScorerCountVouches(r)
    \/ ScorerTick

ScorerSpec == ScorerInit /\ [][ScorerNext]_vars

----------------------------------------------------------------------------
(* The HTTP routes of routes/agents.ts over the D1 store.  Every storage    *)
(* statement (an awaited prepare(...).run/first/all) is one atomic step;    *)
(* requests interleave between their statements.                            *)

Ids == 1..MaxAgents
Usernames == {"alice", "bob"}
\* the karma the Moltbook profile API reports for a username
\* (data.agent?.karma || 0)
ProviderKarma(username) == IF username = "alice" THEN 250 ELSE -2500

\* ids a request may name: the stored ones and one that is not stored
KnownIds == DOMAIN agents \cup {Cardinality(DOMAIN agents) + 1}

\* a request record in flight
InFlight(r, op, pc) == r \in BagToSet(req) /\ r.op = op /\ r.pc = pc
\* a worker is free to take a new request
Free == BagCardinality(req) < MaxProcs
Accept(r) == req (+) SetToBag({r})
Goto(r, pc) == (req (-) SetToBag({r})) (+) SetToBag({[r EXCEPT !.pc = pc]})
Move(r, r2) == (req (-) SetToBag({r})) (+) SetToBag({r2})
Finish(r) == req (-) SetToBag({r})

Request(op, pc, from, to, karma) ==
    [op |-> op, pc |-> pc, from |-> from, to |-> to, karma |-> karma,
     score |-> 0]

\* the INSERT with moltbook_verified defaulting to 1
VerifiedNewRow(username) == Row(username, TRUE, NULL, 0, 0, "pending", now)

\* AgentService.create: INSERT INTO agents (...) with the column defaults
NewRow(username) == Row(username, FALSE, NULL, 0, 0, "pending", now)

\* POST /v1/agents, AgentService.create up to its INSERT: a UNIQUE violation
\* throws and the route's catch answers 409
Register(username) ==
    LET id == Cardinality(DOMAIN agents) + 1
    IN  /\ Free
        /\ id \in Ids
        /\ IF /\ username # NoUsername
              /\ \E i \in DOMAIN agents : agents[i].moltbook_username = username
           THEN \* UNIQUE constraint on moltbook_username
                /\ resp' = Resp("register", 0, 0, 409, 0, NoDetails)
                /\ UNCHANGED <<agents, req>>
           ELSE /\ agents' = [i \in DOMAIN agents \cup {id} |->
                                 IF i = id THEN NewRow(username) ELSE agents[i]]
                /\ req' = Accept(Request("register", "created", 0, id, 0))
                /\ resp' = NoResp
        /\ UNCHANGED <<vouches, now, ret>>

\* AgentService.create, `return this.getById(id)`, and the 201 response with
\* the agent as it is read now
RegisterGetById(r) ==
    /\ InFlight(r, "register", "created")
    /\ resp' = AgentResp("register", r.to, 201, 0,
                          parseAgent(r.to, agents[r.to]))
    /\ req' = Finish(r)
    /\ UNCHANGED <<agents, vouches, now, ret>>

\* GET /v1/agents/:id/trust
GetTrust(id) ==
    /\ IF id \notin DOMAIN agents
       THEN resp' = Resp("trust", 0, id, 404, 0, NoDetails)
       ELSE resp' = Resp("trust", 0, id, 200, 0, getDetails(agents[id], now))
    /\ UNCHANGED <<agents, vouches, now, req, ret>>

\* the same UPDATE without its WHERE id = ?: every row is marked verified
NoWhereUpdateVerified(ag, id, karma) ==
    [i \in DOMAIN ag |->
        [ag[i] EXCEPT !.moltbook_verified = TRUE,
                      !.moltbook_karma = Some(karma),
                      !.status = "active"]]

\* the update leaving the status of a suspended agent alone
KeepSuspendedUpdateVerified(ag, id, karma) ==
    IF id \notin DOMAIN ag THEN ag
    ELSE [ag EXCEPT ![id].moltbook_verified = TRUE,
                    ![id].moltbook_karma = Some(karma),
                    ![id].status = IF @ = "suspended" THEN @ ELSE "active"]

\* AgentService.update(id, {moltbook_verified: true, moltbook_karma, status})
UpdateVerified(ag, id, karma) ==
    IF id \notin DOMAIN ag THEN ag
    ELSE [ag EXCEPT ![id].moltbook_verified = TRUE,
                    ![id].moltbook_karma = Some(karma),
                    ![id].status = "active"]

\* AgentService.update(id, {trust_score})
UpdateTrustScore(ag, id, score) ==
    IF id \notin DOMAIN ag THEN ag ELSE [ag EXCEPT ![id].trust_score = score]

\* a verify request waiting for the provider: username is the
\* moltbook_username of the agent object getById returned
VerifyRequest(id, username) ==
    [op |-> "verify", pc |-> "provider", from |-> 0, to |-> id, karma |-> 0,
     score |-> 0, username |-> username]

\* POST /v1/agents/:id/verify/moltbook: getById and the two early returns
VerifyBegin(id) ==
    /\ Free
    /\ IF id \notin DOMAIN agents
       THEN resp' = Resp("verify", 0, id, 404, 0, NoDetails) /\ UNCHANGED req
       ELSE IF agents[id].moltbook_username = NoUsername
       THEN resp' = Resp("verify", 0, id, 400, 0, NoDetails) /\ UNCHANGED req
       ELSE /\ req' = Accept(VerifyRequest(id, agents[id].moltbook_username))
            /\ resp' = NoResp
    /\ UNCHANGED <<agents, vouches, now, ret>>

\* verifyMoltbook: the fetch of the provider's profile, whose outcome is the
\* provider's (found: the verification code is in a recent post; every
\* failure of the lookup is {verified: false}), and the 400 of the route
VerifyProvider(r) ==
    /\ InFlight(r, "verify", "provider")
    /\ \E found \in BOOLEAN :
          IF found
          THEN /\ req' = Move(r, [r EXCEPT !.karma = ProviderKarma(r.username),
                                           !.pc = "mark"])
               /\ resp' = NoResp
          ELSE /\ resp' = Resp("verify", 0, r.to, 400, 0, NoDetails)
               /\ req' = Finish(r)
    /\ UNCHANGED <<agents, vouches, now, ret>>

\* verify: agentService.update(id, {moltbook_verified, moltbook_karma, status})
VerifyMark(r) ==
    /\ InFlight(r, "verify", "mark")
    /\ agents' = UpdateVerified(agents, r.to, r.karma)
    /\ req' = Goto(r, "calcRow")
    /\ resp' = NoResp
    /\ UNCHANGED <<vouches, now, ret>>

\* the self-vouch check moved in front of the voucher check
SelfFirstVouchGetVoucher(from, to) ==
    /\ Free
    /\ IF from = to
       THEN resp' = Resp("vouch", from, to, 400, 0, NoDetails) /\ UNCHANGED req
       ELSE IF from \notin DOMAIN agents \/ ~agents[from].moltbook_verified
       THEN resp' = Resp("vouch", from, to, 403, 0, NoDetails) /\ UNCHANGED req
       ELSE /\ req' = Accept(Request("vouch", "target", from, to, 0))
            /\ resp' = NoResp
    /\ UNCHANGED <<agents, vouches, now, ret>>

\* POST /v1/agents/:id/vouch: getById(from_agent_id) and the voucher check
VouchGetVoucher(from, to) ==
    /\ Free
    /\ IF from \notin DOMAIN agents \/ ~agents[from].moltbook_verified
       THEN resp' = Resp("vouch", from, to, 403, 0, NoDetails) /\ UNCHANGED req
       ELSE /\ req' = Accept(Request("vouch", "target", from, to, 0))
            /\ resp' = NoResp
    /\ UNCHANGED <<agents, vouches, now, ret>>

\* the target check without the self-vouch check
NoSelfCheckVouchGetTarget(r) ==
    /\ InFlight(r, "vouch", "target")
    /\ IF r.to \notin DOMAIN agents
       THEN resp' = Resp("vouch", r.from, r.to, 404, 0, NoDetails)
            /\ req' = Finish(r)
       ELSE resp' = NoResp /\ req' = Goto(r, "insert")
    /\ UNCHANGED <<agents, vouches, now, ret>>

\* the recipient's counter raised before the target and self-vouch checks
CountFirstVouchGetTarget(r) ==
    /\ InFlight(r, "vouch", "target")
    /\ IF r.to \notin DOMAIN agents
       THEN /\ resp' = Resp("vouch", r.from, r.to, 404, 0, NoDetails)
            /\ req' = Finish(r)
            /\ UNCHANGED agents
       ELSE IF r.from = r.to
       THEN /\ resp' = Resp("vouch", r.from, r.to, 400, 0, NoDetails)
            /\ req' = Finish(r)
            /\ agents' = [agents EXCEPT ![r.to].vouch_count = @ + 1]
       ELSE /\ resp' = NoResp /\ req' = Goto(r, "insert")
            /\ UNCHANGED agents
    /\ UNCHANGED <<vouches, now, ret>>

\* vouch: getById(toId), the target check and the self-vouch check
VouchGetTarget(r) ==
    /\ InFlight(r, "vouch", "target")
    /\ IF r.to \notin DOMAIN agents
       THEN resp' = Resp("vouch", r.from, r.to, 404, 0, NoDetails)
            /\ req' = Finish(r)
       ELSE IF r.from = r.to
       THEN resp' = Resp("vouch", r.from, r.to, 400, 0, NoDetails)
            /\ req' = Finish(r)
       ELSE resp' = NoResp /\ req' = Goto(r, "insert")
    /\ UNCHANGED <<agents, vouches, now, ret>>

\* INSERT OR IGNORE: a duplicate is dropped silently and addVouch goes on
IgnoreDuplicateVouchInsert(r) ==
    /\ InFlight(r, "vouch", "insert")
    /\ vouches' = IF BagIn(Edge(r.from, r.to), vouches) THEN vouches
                  ELSE vouches (+) SetToBag({Edge(r.from, r.to)})
    /\ req' = Goto(r, "count")
    /\ resp' = NoResp
    /\ UNCHANGED <<agents, now, ret>>

\* the vouches table without its UNIQUE(from_agent_id, to_agent_id)
NoUniqueVouchInsert(r) ==
    /\ InFlight(r, "vouch", "insert")
    /\ vouches' = vouches (+) SetToBag({Edge(r.from, r.to)})
    /\ req' = Goto(r, "count")
    /\ resp' = NoResp
    /\ UNCHANGED <<agents, now, ret>>

\* the catch of the duplicate cleaning up after the failed insert: it deletes
\* the pair's edge
RollbackVouchInsert(r) ==
    /\ InFlight(r, "vouch", "insert")
    /\ IF BagIn(Edge(r.from, r.to), vouches)
       THEN /\ resp' = Resp("vouch", r.from, r.to, 409, 0, NoDetails)
            /\ req' = Finish(r)
            /\ vouches' = vouches (-) SetToBag({Edge(r.from, r.to)})
       ELSE /\ vouches' = vouches (+) SetToBag({Edge(r.from, r.to)})
            /\ req' = Goto(r, "count")
            /\ resp' = NoResp
    /\ UNCHANGED <<agents, now, ret>>

\* AgentService.addVouch, first statement: INSERT INTO vouches under
\* UNIQUE(from_agent_id, to_agent_id); the route's catch answers 409
VouchInsert(r) ==
    /\ InFlight(r, "vouch", "insert")
    /\ IF BagIn(Edge(r.from, r.to), vouches)
       THEN /\ resp' = Resp("vouch", r.from, r.to, 409, 0, NoDetails)
            /\ req' = Finish(r)
            /\ UNCHANGED vouches
       ELSE /\ vouches' = vouches (+) SetToBag({Edge(r.from, r.to)})
            /\ req' = Goto(r, "count")
            /\ resp' = NoResp
    /\ UNCHANGED <<agents, now, ret>>

\* the counter update without its WHERE id = ?: every row is incremented
NoWhereVouchCount(r) ==
    /\ InFlight(r, "vouch", "count")
    /\ agents' = [i \in DOMAIN agents |->
                     [agents[i] EXCEPT !.vouch_count = @ + 1]]
    /\ req' = Goto(r, "calcRow")
    /\ resp' = NoResp
    /\ UNCHANGED <<vouches, now, ret>>

\* AgentService.addVouch, second statement:
\* UPDATE agents SET vouch_count = vouch_count + 1 WHERE id = ?
VouchCount(r) ==
    /\ InFlight(r, "vouch", "count")
    /\ agents' = IF r.to \in DOMAIN agents
                 THEN [agents EXCEPT ![r.to].vouch_count = @ + 1]
                 ELSE agents
    /\ req' = Goto(r, "calcRow")
    /\ resp' = NoResp
    /\ UNCHANGED <<vouches, now, ret>>

\* calculateScore, first query and the factors computed from the row
CalcRow(r) ==
    /\ r \in BagToSet(req) /\ r.pc = "calcRow"
    /\ IF r.to \notin DOMAIN agents
       THEN req' = Move(r, [r EXCEPT !.score = 0, !.pc = "save"])
       ELSE req' = Move(r, [r EXCEPT !.score = RowScore(agents[r.to], now),
                                     !.pc = "calcVouches"])
    /\ resp' = NoResp
    /\ UNCHANGED <<agents, vouches, now, ret>>

\* the vouch count taken from a snapshot of the edge set made before the
\* request's own insert
StaleCalcVouches(r) ==
    /\ r \in BagToSet(req) /\ r.pc = "calcVouches"
    /\ req' = Move(r, [r EXCEPT
                 !.score = FinishScore(r.score,
                               VerifiedVouches(agents,
                                   vouches (-) SetToBag({Edge(r.from, r.to)}),
                                   r.to)),
                 !.pc = "save"])
    /\ resp' = NoResp
    /\ UNCHANGED <<agents, vouches, now, ret>>

\* calculateScore, second query, the vouch points and the cap
CalcVouches(r) ==
    /\ r \in BagToSet(req) /\ r.pc = "calcVouches"
    /\ req' = Move(r, [r EXCEPT
                 !.score = FinishScore(r.score,
                               VerifiedVouches(agents, vouches, r.to)),
                 !.pc = "save"])
    /\ resp' = NoResp
    /\ UNCHANGED <<agents, vouches, now, ret>>

\* agentService.update(id, {trust_score: newScore}); the vouch route answers
\* 200 with new_trust_score, the verify route goes on to read the agent
SaveScore(r) ==
    /\ r \in BagToSet(req) /\ r.pc = "save"
    /\ agents' = UpdateTrustScore(agents, r.to, r.score)
    /\ IF r.op = "verify"
       THEN resp' = NoResp /\ req' = Goto(r, "updated")
       ELSE /\ resp' = Resp(r.op, r.from, r.to, 200, r.score, NoDetails)
            /\ req' = Finish(r)
    /\ UNCHANGED <<vouches, now, ret>>

\* verify: `const updated = await agentService.getById(id)` and the 200 with
\* trust_score: newScore and agent: toPublic(updated)
VerifyGetUpdated(r) ==
    /\ InFlight(r, "verify", "updated")
    /\ resp' = AgentResp("verify", r.to, 200, r.score, ToPublic(r.to, agents[r.to]))
    /\ req' = Finish(r)
    /\ UNCHANGED <<agents, vouches, now, ret>>

\* half a day passes
Tick ==
    /\ now < MaxTicks * HalfDay
    /\ now' = now + HalfDay
    /\ resp' = NoResp
    /\ UNCHANGED <<agents, vouches, req, ret>>

Init ==
    /\ agents = << >>
    /\ vouches = EmptyBag
    /\ now = 0
    /\ req = EmptyBag
    /\ resp = NoResp
    /\ ret = NoRet

Next ==
    \/ \E username \in Usernames \cup {NoUsername} : Register(username)
    \/ \E r \in BagToSet(req) : RegisterGetById(r)
    \/ \E id \in KnownIds : GetTrust(id)
    \/ \E id \in KnownIds : VerifyBegin(id)
    \/ \E r \in BagToSet(req) : VerifyProvider(r)
    \/ \E r \in BagToSet(req) : VerifyMark(r)
    \/ \E from \in KnownIds, to \in KnownIds : VouchGetVoucher(from, to)
    \/ \E r \in BagToSet(req) : VouchGetTarget(r)
    \/ \E r \in BagToSet(req) : VouchInsert(r)
    \/ \E r \in BagToSet(req) : VouchCount(r)
    \/ \E r \in BagToSet(req) : CalcRow(r)
    \/ \E r \in BagToSet(req) : CalcVouches(r)
    \/ \E r \in BagToSet(req) : SaveScore(r)
    \/ \E r \in BagToSet(req) : VerifyGetUpdated(r)
    \/ Tick

Spec == Init /\ [][Next]_vars

----------------------------------------------------------------------------
(* Concurrent vouch requests for one recipient.  The store is the one the   *)
(* routes leave after every username has registered and verified and one    *)
(* more agent, the recipient, has registered without a username.            *)

VoucherNames == <<"alice", "bob">>
Recipient == Len(VoucherNames) + 1

\* POST /v1/agents once per voucher name, then once without a username
VouchRegistered ==
    [i \in 1..Recipient |->
        IF i = Recipient THEN NewRow(NoUsername) ELSE NewRow(VoucherNames[i])]

\* POST /v1/agents/:id/verify/moltbook run alone, the provider finding the code
VouchVerified(ag, id) ==
    LET marked == UpdateVerified(ag, id, ProviderKarma(ag[id].moltbook_username))
    IN  UpdateTrustScore(marked, id, calculateScore(marked, vouches, now, id))

RECURSIVE VouchVerifiedUpTo(_, _)
VouchVerifiedUpTo(ag, n) ==
    IF n = 0 THEN ag ELSE VouchVerified(VouchVerifiedUpTo(ag, n - 1), n)

VouchInit ==
    /\ now = 0
    /\ vouches = EmptyBag
    /\ agents = VouchVerifiedUpTo(VouchRegistered, Len(VoucherNames))
    /\ req = EmptyBag
    /\ resp = NoResp
    /\ ret = NoRet

VouchNext ==
    \/ \E from \in KnownIds, to \in KnownIds : VouchGetVoucher(from, to)
    \/ \E r \in BagToSet(req) : VouchGetTarget(r)
    \/ \E r \in BagToSet(req) : VouchInsert(r)
    \/ \E r \in BagToSet(req) : VouchCount(r)
    \/ \E r \in BagToSet(req) : CalcRow(r)
    \/ \E r \in BagToSet(req) : CalcVouches(r)
    \/ \E r \in BagToSet(req) : SaveScore(r)
    \/ Tick

VouchSpec == VouchInit /\ [][VouchNext]_vars

----------------------------------------------------------------------------
(* The vouch route over a store whose statements can fail.  A D1 statement  *)
(* that rejects makes the awaited call throw; the vouch route's catch       *)
(* rethrows every error that is not a UNIQUE violation and app.onError      *)
(* answers 500.  The store is the one of the concurrent vouch requests.     *)

\* the statement that request r awaits at pc rejects: the request ends with
\* 500 and what its earlier statements wrote stays
Rejects(r, pc) ==
    /\ r \in BagToSet(req) /\ r.op = "vouch" /\ r.pc = pc
    /\ resp' = Resp("vouch", r.from, r.to, 500, 0, NoDetails)
    /\ req' = Finish(r)
    /\ UNCHANGED <<agents, vouches, now, ret>>

\* getById(from_agent_id) rejects: nothing of the request has run
VouchGetVoucherFail(from, to) ==
    /\ Free
    /\ resp' = Resp("vouch", from, to, 500, 0, NoDetails)
    /\ UNCHANGED <<agents, vouches, now, req, ret>>

\* getById(toId) rejects
VouchGetTargetFail(r) == Rejects(r, "target")

\* addVouch: the INSERT rejects with an error that is no UNIQUE violation
VouchInsertFail(r) == Rejects(r, "insert")

\* addVouch: the INSERT has run and the UPDATE of vouch_count rejects
VouchCountFail(r) == Rejects(r, "count")

\* calculateScore: the SELECT of the row rejects
CalcRowFail(r) == Rejects(r, "calcRow")

\* calculateScore: the COUNT of the vouches rejects
CalcVouchesFail(r) == Rejects(r, "calcVouches")

\* agentService.update(toId, {trust_score}) rejects: the edge and the counter
\* are stored, the score is not
SaveScoreFail(r) == Rejects(r, "save")

FaultNext ==
    \/ VouchNext
    \/ \E from \in KnownIds, to \in KnownIds : VouchGetVoucherFail(from, to)
    \/ \E r \in BagToSet(req) : VouchGetTargetFail(r)
    \/ \E r \in BagToSet(req) : VouchInsertFail(r)
    \/ \E r \in BagToSet(req) : VouchCountFail(r)
    \/ \E r \in BagToSet(req) : CalcRowFail(r)
    \/ \E r \in BagToSet(req) : CalcVouchesFail(r)
    \/ \E r \in BagToSet(req) : SaveScoreFail(r)

FaultSpec == VouchInit /\ [][FaultNext]_vars

----------------------------------------------------------------------------
(* Requests handled one at a time on a store built as the tests build it:   *)
(* a recipient, nv verified vouchers with an edge to it, one unverified     *)
(* agent with a Moltbook username whose edge to the recipient is already    *)
(* stored, and one verified agent that has not vouched yet.                 *)

SeqKarmaInputs == {NULL, Some(1500), Some(10000)}
\* age of the recipient at ScorerEpoch in half days
SeqAgeInputs == {0, 20, 40}

SeqAgents(verified, karma, age, nv) ==
    [ i \in 1..(nv + 3) |->
        IF i = nv + 3
        THEN Row(NoUsername, verified, karma, 0, nv + 1, "active",
                 ScorerEpoch - age * HalfDay)
        ELSE IF i = nv + 2
        THEN Row(NoUsername, TRUE, NULL, 0, 0, "active", ScorerEpoch)
        ELSE IF i = nv + 1
        THEN Row(VoucherNames[1], FALSE, NULL, 0, 0, "pending", ScorerEpoch)
        ELSE Row(NoUsername, TRUE, NULL, 0, 0, "active", ScorerEpoch) ]

SeqVouches(nv) == SetToBag({Edge(i, nv + 3) : i \in 1..(nv + 1)})

SeqInit ==
    /\ \E verified \in BOOLEAN, karma \in SeqKarmaInputs,
          age \in SeqAgeInputs, nv \in 0..MaxVouchers :
          /\ agents = SeqAgents(verified, karma, age, nv)
          /\ vouches = SeqVouches(nv)
    /\ now = ScorerEpoch
    /\ req = EmptyBag
    /\ resp = NoResp
    /\ ret = NoRet

\* requests are handled one at a time: a request or a direct call starts
\* when no other is in flight

\* trustService.calculateScore(id) called directly
SeqCalculate(id) == req = EmptyBag /\ ScorerCalculate(id)

\* POST /v1/agents/:id/verify/moltbook with no other request running
SeqVerify(id) == req = EmptyBag /\ VerifyBegin(id)

\* POST /v1/agents/:id/vouch with no other request running
SeqVouch(from, to) == req = EmptyBag /\ VouchGetVoucher(from, to)

SeqNext ==
    \/ \E id \in DOMAIN agents : SeqCalculate(id)
    \/ \E r \in BagToSet(req) : ScorerCountVouches(r)
    \/ \E id \in DOMAIN agents : SeqVerify(id)
    \/ \E r \in BagToSet(req) : VerifyProvider(r)
    \/ \E r \in BagToSet(req) : VerifyMark(r)
    \/ \E from \in KnownIds : SeqVouch(from, TargetId(agents))
    \/ \E r \in BagToSet(req) : VouchGetTarget(r)
    \/ \E r \in BagToSet(req) : VouchInsert(r)
    \/ \E r \in BagToSet(req) : VouchCount(r)
    \/ \E r \in BagToSet(req) : CalcRow(r)
    \/ \E r \in BagToSet(req) : CalcVouches(r)
    \/ \E r \in BagToSet(req) : SaveScore(r)
    \/ \E r \in BagToSet(req) : VerifyGetUpdated(r)

SeqSpec == SeqInit /\ [][SeqNext]_vars

----------------------------------------------------------------------------
(* Capabilities.  The column agents.capabilities holds the JSON text of the *)
(* list.  PATCH /v1/agents/:id and its middleware requireAgentAuth are      *)
(* listed in README.md 163-207 and 332-357.  AgentService.validateApiKey    *)
(* and AgentService.updateCapabilities are not among the sources: a key is  *)
(* valid for the agent registration gave it to (README.md 290-296,          *)
(* test/trust.test.ts 1146-1195), and the rules of a list are those of the  *)
(* tests of updateCapabilities (test/trust.test.ts 1201-1308) and of the    *)
(* API documentation (index.ts 401-405).                                    *)

\* the API key registration handed to agent id; 0 is a key nobody was given
ApiKeyOf(id) == id
UnknownKey == 0

\* the Authorization header of a request: absent, of another scheme, or
\* "Bearer " followed by a token
AuthHeaders ==
    {[scheme |-> "none", token |-> UnknownKey],
     [scheme |-> "Basic", token |-> ApiKeyOf(1)]}
      \cup {[scheme |-> "Bearer", token |-> t] : t \in 0..Recipient}

MAX_CAPABILITIES == 20
MAX_CAPABILITY_LENGTH == 50

LowerCase ==
    {"a", "b", "c", "d", "e", "f", "g", "h", "i", "j", "k", "l", "m",
     "n", "o", "p", "q", "r", "s", "t", "u", "v", "w", "x", "y", "z"}
Digits == {"0", "1", "2", "3", "4", "5", "6", "7", "8", "9"}

\* the row with the text of its capabilities column
WithCapabilities(row, text) == [row EXCEPT !.capabilities = text]

Repeat(ch, n) == [j \in 1..n |-> ch]
\* n different capabilities: "a", "aa", "aaa", ...
DistinctCapabilities(n) == [i \in 1..n |-> Repeat("a", i)]

\* request bodies: arrays of strings, which is all the zod schemas ask for
CapInputs ==
    { << >>,
      << <<"n", "l", "p">> >>,
      << <<"m", "l", "_", "v", "2">>, <<"n", "l", "p">> >>,
      << <<"n", "l", "p">>, <<"n", "l", "p">> >>,
      << <<"N", "l", "p">> >>,
      << <<"a", " ", "b">> >>,
      << <<"a", "-", "b">> >>,
      << <<"a", "\"", "b">> >>,
      << <<"a", "\n", "b">> >>,
      << <<"a", "\t", "b">>, <<"c", Ascii[1], "\\">> >>,
      << <<"a", CodeUnit(0)>>, <<CodeUnit(55357), CodeUnit(56832)>>,
         <<CodeUnit(55357)>> >>,
      << Repeat("a", MAX_CAPABILITY_LENGTH) >>,
      << Repeat("a", MAX_CAPABILITY_LENGTH + 1) >>,
      DistinctCapabilities(MAX_CAPABILITIES),
      DistinctCapabilities(MAX_CAPABILITIES + 1) }

\* the validation of updateCapabilities
ValidCapabilities(list) ==
    /\ Len(list) <= MAX_CAPABILITIES
    /\ \A i \in 1..Len(list) :
          /\ Len(list[i]) <= MAX_CAPABILITY_LENGTH
          /\ \A k \in 1..Len(list[i]) :
                list[i][k] \in LowerCase \cup Digits \cup {"_"}
    /\ \A i, j \in 1..Len(list) : i # j => list[i] # list[j]

\* POST /v1/agents with a capabilities array: createAgentSchema accepts any
\* array of strings and create's INSERT stores
\* JSON.stringify(input.capabilities || [])
CapRegister(list) ==
    LET id == Cardinality(DOMAIN agents) + 1
    IN  /\ Free
        /\ id \in Ids
        /\ agents' = [i \in DOMAIN agents \cup {id} |->
                         IF i = id
                         THEN WithCapabilities(NewRow(NoUsername),
                                               JSONStringify(list))
                         ELSE agents[i]]
        /\ req' = Accept(Request("register", "created", 0, id, 0))
        /\ resp' = NoResp
        /\ UNCHANGED <<vouches, now, ret>>

\* the lists sent to PATCH /v1/agents/:id
CapUpdateInputs ==
    { << >>,
      << <<"n", "l", "p">> >>,
      << <<"m", "l", "_", "v", "2">>, <<"n", "l", "p">> >>,
      << <<"n", "l", "p">>, <<"n", "l", "p">> >>,
      << <<"a", "-", "b">> >> }

\* PATCH requests in flight at a time
MaxCapUpdates == 1

\* validateApiKey(agentId, token): the token is the key of the stored agent
validateApiKey(ag, id, token) == id \in DOMAIN ag /\ token = ApiKeyOf(id)

\* a PATCH request waiting for validateApiKey
CapRequest(id, header, list) ==
    [op |-> "capabilities", pc |-> "auth", from |-> 0, to |-> id, karma |-> 0,
     score |-> 0, token |-> header.token, capabilities |-> list]

\* requireAgentAuth, the checks of the header: a missing header and one that
\* does not start with "Bearer " are answered 401
AgentAuthHeader(id, header, list) ==
    /\ Free
    /\ Cardinality({r \in BagToSet(req) : r.op = "capabilities"})
          < MaxCapUpdates
    /\ IF header.scheme # "Bearer"
       THEN /\ resp' = Resp("capabilities", 0, id, 401, 0, NoDetails)
            /\ UNCHANGED req
       ELSE /\ req' = Accept(CapRequest(id, header, list))
            /\ resp' = NoResp
    /\ UNCHANGED <<agents, vouches, now, ret>>

\* requireAgentAuth, await validateApiKey(agentId, token): a key that is not
\* the agent's is answered 401
AgentAuthValidate(r) ==
    /\ InFlight(r, "capabilities", "auth")
    /\ IF ~validateApiKey(agents, r.to, r.token)
       THEN /\ resp' = Resp("capabilities", 0, r.to, 401, 0, NoDetails)
            /\ req' = Finish(r)
       ELSE resp' = NoResp /\ req' = Goto(r, "update")
    /\ UNCHANGED <<agents, vouches, now, ret>>

\* the route after the middleware, await updateCapabilities(id, capabilities):
\* it throws on a list that is not valid (400), returns null for a missing
\* agent (404) and else stores the list and returns the agent.  The agent of
\* a validated key is stored and no row is ever deleted, so the 404 and the
\* order of the two checks cannot be observed.
CapUpdate(r) ==
    /\ InFlight(r, "capabilities", "update")
    /\ IF ~ValidCapabilities(r.capabilities)
       THEN /\ resp' = Resp("capabilities", 0, r.to, 400, 0, NoDetails)
            /\ UNCHANGED agents
       ELSE IF r.to \notin DOMAIN agents
       THEN /\ resp' = Resp("capabilities", 0, r.to, 404, 0, NoDetails)
            /\ UNCHANGED agents
       ELSE LET row == WithCapabilities(agents[r.to],
                                        JSONStringify(r.capabilities))
            IN  /\ agents' = [agents EXCEPT ![r.to] = row]
                /\ resp' = AgentResp("capabilities", r.to, 200, 0,
                                     ToPublic(r.to, row))
    /\ req' = Finish(r)
    /\ UNCHANGED <<vouches, now, ret>>

CapNext ==
    \/ \E list \in CapInputs : CapRegister(list)
    \/ \E r \in BagToSet(req) : RegisterGetById(r)
    \/ \E id \in KnownIds, header \in AuthHeaders, list \in CapUpdateInputs :
          AgentAuthHeader(id, header, list)
    \/ \E r \in BagToSet(req) : AgentAuthValidate(r)
    \/ \E r \in BagToSet(req) : CapUpdate(r)

CapSpec == Init /\ [][CapNext]_vars

----------------------------------------------------------------------------
(* The vouch route called as the API documentation the program serves       *)
(* describes it (index.ts 430-447, "Vouch for Another Agent                  *)
(* (Authenticated)"): the request carries an Authorization header next to   *)
(* the from_agent_id of its body.  The route of routes/agents.ts 179-235    *)
(* has no middleware and reads the body only; the header travels with the   *)
(* request and no statement reads it.  The store is the one of the          *)
(* concurrent vouch requests.                                               *)

AuthRequest(header, from, to) ==
    [op |-> "vouch", pc |-> "target", from |-> from, to |-> to, karma |-> 0,
     score |-> 0, scheme |-> header.scheme, token |-> header.token]

\* POST /v1/agents/:id/vouch: getById(from_agent_id) and the voucher check
AuthVouchGetVoucher(header, from, to) ==
    /\ Free
    /\ IF from \notin DOMAIN agents \/ ~agents[from].moltbook_verified
       THEN resp' = Resp("vouch", from, to, 403, 0, NoDetails) /\ UNCHANGED req
       ELSE /\ req' = Accept(AuthRequest(header, from, to))
            /\ resp' = NoResp
    /\ UNCHANGED <<agents, vouches, now, ret>>

AuthNext ==
    \/ \E header \in AuthHeaders, from \in KnownIds, to \in KnownIds :
          AuthVouchGetVoucher(header, from, to)
    \/ \E r \in BagToSet(req) : VouchGetTarget(r)
    \/ \E r \in BagToSet(req) : VouchInsert(r)
    \/ \E r \in BagToSet(req) : VouchCount(r)
    \/ \E r \in BagToSet(req) : CalcRow(r)
    \/ \E r \in BagToSet(req) : CalcVouches(r)
    \/ \E r \in BagToSet(req) : SaveScore(r)

AuthSpec == VouchInit /\ [][AuthNext]_vars

----------------------------------------------------------------------------
(* Search (AgentService.search, GET /v1/agents) and re-verification on a    *)
(* store seeded as the tests seed it (test/fixtures.ts): rows of every      *)
(* status, verified or not, with stored scores and capabilities.  A search  *)
(* is one statement and runs in any state, also between the statements of   *)
(* a verify request.                                                        *)

UpperSeq ==
    <<"A", "B", "C", "D", "E", "F", "G", "H", "I", "J", "K", "L", "M",
      "N", "O", "P", "Q", "R", "S", "T", "U", "V", "W", "X", "Y", "Z">>
LowerSeq ==
    <<"a", "b", "c", "d", "e", "f", "g", "h", "i", "j", "k", "l", "m",
      "n", "o", "p", "q", "r", "s", "t", "u", "v", "w", "x", "y", "z">>

\* SQLite compares ASCII letters in LIKE without regard to case
FoldCase(ch) ==
    IF \E k \in 1..Len(UpperSeq) : UpperSeq[k] = ch
    THEN LowerSeq[CHOOSE k \in 1..Len(UpperSeq) : UpperSeq[k] = ch]
    ELSE ch

\* the number of code units of the character that starts at position i
CharLen(text, i) ==
    IF /\ i < Len(text)
       /\ IsHighSurrogate(text[i])
       /\ IsLowSurrogate(text[i + 1])
    THEN 2 ELSE 1

\* position k is not inside a character of text
CharStart(text, k) ==
    ~(k > 1 /\ k <= Len(text) /\ CharLen(text, k - 1) = 2)

\* text LIKE pattern from positions i and j on.  SQLite compares character
\* by character: % matches any run of characters, _ any one character (both
\* code units of one above U+FFFF), any other character itself
RECURSIVE LikeFrom(_, _, _, _)
LikeFrom(text, i, pat, j) ==
    IF j > Len(pat) THEN i > Len(text)
    ELSE IF pat[j] = "%"
    THEN \E k \in i..(Len(text) + 1) :
            CharStart(text, k) /\ LikeFrom(text, k, pat, j + 1)
    ELSE /\ i <= Len(text)
         /\ IF pat[j] = "_"
            THEN LikeFrom(text, i + CharLen(text, i), pat, j + 1)
            ELSE /\ FoldCase(pat[j]) = FoldCase(text[i])
                 /\ LikeFrom(text, i + 1, pat, j + 1)

Like(text, pat) == LikeFrom(text, 1, pat, 1)

\* `%"${query.capability}"%`
CapabilityPattern(capability) ==
    <<"%", "\"">> \o capability \o <<"\"", "%">>

\* the WHERE clause search builds: status = 'active' and one more condition
\* for every filter the query sets
SearchWhere(row, query) ==
    /\ row.status = "active"
    /\ query.verified # NULL => row.moltbook_verified = query.verified[1]
    /\ query.min_trust # NULL => row.trust_score >= query.min_trust[1]
    /\ query.capability # << >> =>
          Like(row.capabilities, CapabilityPattern(query.capability))

\* the orders ORDER BY trust_score DESC allows for the rows S (rows with
\* equal scores come in any order)
SortedOrders(ag, S) ==
    {o \in [1..Cardinality(S) -> S] :
        /\ \A a, b \in 1..Cardinality(S) : a # b => o[a] # o[b]
        /\ \A a, b \in 1..Cardinality(S) :
              a < b => ag[o[a]].trust_score >= ag[o[b]].trust_score}

\* LIMIT ? OFFSET ?: SQLite takes a negative LIMIT as no limit and a negative
\* OFFSET as 0
Page(order, limit, offset) ==
    LET first == Max(offset, 0) + 1
        last == IF limit < 0 THEN Len(order)
                ELSE Min(first - 1 + limit, Len(order))
    IN  IF first > last THEN << >> ELSE SubSeq(order, first, last)

\* the limit and the offset of a query: the defaults of the route, no limit,
\* and the second row alone
SearchPages == {<<20, 0>>, <<-1, -1>>, <<1, 1>>}

SearchQueries ==
    { [ verified |-> verified, min_trust |-> min_trust,
        capability |-> capability, limit |-> page[1], offset |-> page[2] ] :
          verified \in {NULL, Some(TRUE), Some(FALSE)},
          min_trust \in {NULL, Some(50)},
          capability \in {<< >>, <<"n", "l", "p">>, <<"_">>},
          page \in SearchPages }

SearchNames == <<"alice", "bob", NoUsername>>
SearchScores == <<75, 40, 75>>
\* the second agent's capability is one character above U+FFFF
SearchCapabilities ==
    << << <<"n", "l", "p">> >>,
       << <<CodeUnit(55357), CodeUnit(56832)>> >>,
       << <<"m", "l", "_", "v", "2">>, <<"n", "l", "p">> >> >>

\* createTestAgent once per name
SearchAgents(verified, status) ==
    [ i \in 1..Len(SearchNames) |->
        WithCapabilities(
            Row(SearchNames[i], verified[i],
                IF verified[i] THEN Some(1500) ELSE NULL,
                SearchScores[i], 0, status[i], ScorerEpoch - i * DAY),
            JSONStringify(SearchCapabilities[i])) ]

SearchInit ==
    /\ \E verified \in [1..Len(SearchNames) -> BOOLEAN],
          status \in [1..Len(SearchNames) -> Statuses] :
          \* the first row is the fixtures' suspended agent
          /\ status[1] = "suspended"
          \* an agent without a Moltbook username has not verified
          /\ \A i \in 1..Len(SearchNames) :
                SearchNames[i] = NoUsername => ~verified[i]
          /\ agents = SearchAgents(verified, status)
    /\ vouches = EmptyBag
    /\ now = ScorerEpoch
    /\ req = EmptyBag
    /\ resp = NoResp
    /\ ret = NoRet

SearchResp(query, results) ==
    [op |-> "search", from |-> 0, to |-> 0, status |-> 200, score |-> 0,
     details |-> NoDetails, query |-> query, results |-> results]

\* the search without its status condition
AnyStatusSearch(query) ==
    /\ \E order \in SortedOrders(agents,
                       {i \in DOMAIN agents :
                           SearchWhere([agents[i] EXCEPT !.status = "active"],
                                       query)}) :
          LET page == Page(order, query.limit, query.offset)
          IN  resp' = SearchResp(query,
                         [k \in DOMAIN page |-> ToPublic(page[k], agents[page[k]])])
    /\ ret' = NoRet
    /\ UNCHANGED <<agents, vouches, now, req>>

\* GET /v1/agents: agentService.search(query), one statement
Search(query) ==
    /\ \E order \in SortedOrders(agents,
                       {i \in DOMAIN agents : SearchWhere(agents[i], query)}) :
          LET page == Page(order, query.limit, query.offset)
          IN  resp' = SearchResp(query,
                         [k \in DOMAIN page |-> ToPublic(page[k], agents[page[k]])])
    /\ ret' = NoRet
    /\ UNCHANGED <<agents, vouches, now, req>>

SearchNext ==
    \/ \E query \in SearchQueries : Search(query)
    \/ \E id \in KnownIds : SeqVerify(id)
    \/ \E r \in BagToSet(req) : VerifyProvider(r)
    \/ \E r \in BagToSet(req) : VerifyMark(r)
    \/ \E r \in BagToSet(req) : CalcRow(r)
    \/ \E r \in BagToSet(req) : CalcVouches(r)
    \/ \E r \in BagToSet(req) : SaveScore(r)
    \/ \E r \in BagToSet(req) : VerifyGetUpdated(r)

SearchSpec == SearchInit /\ [][SearchNext]_vars

----------------------------------------------------------------------------
(* The trust breakdown next to the scorer on the rows the scorer            *)
(* specification draws: GET /v1/agents/:id/trust and calculateScore on the  *)
(* same store.                                                              *)

DetailsNext ==
    \/ \E id \in {TargetId(agents), MissingId(agents)} : GetTrust(id)
    \/ \E id \in {TargetId(agents), MissingId(agents)} : ScorerCalculate(id)
    \/ \E r \in BagToSet(req) : ScorerCountVouches(r)

DetailsSpec == ScorerInit /\ [][DetailsNext]_vars

----------------------------------------------------------------------------
(* Claims about the scorer, checked under ScorerSpec *)

\* the row the last direct scorer call was about
RetScored == ret.op = "calculateScore" /\ ret.id \in DOMAIN agents
RetRow == agents[ret.id]

\* the ids of the verified agents with a vouch edge into id
QualifyingVouchers(id) ==
    {i \in DOMAIN agents :
        agents[i].moltbook_verified /\ BagIn(Edge(i, id), vouches)}

UnverifiedVouchers(id) ==
    {i \in DOMAIN agents :
        ~agents[i].moltbook_verified /\ BagIn(Edge(i, id), vouches)}

\* the factors in closed form, from the row and the edge set
FactorV == IF RetRow.moltbook_verified THEN 20 ELSE 0
FactorK ==
    Min((IF RetRow.moltbook_karma = NULL THEN 0 ELSE RetRow.moltbook_karma[1])
            \div 100, 30)
\* the age the call computed: from the Date.now() it read
RetDays == (ret.clock - RetRow.created_at) \div DAY
FactorA == Min(RetDays, 20)
FactorQ == Min(5 * Cardinality(QualifyingVouchers(ret.id)), 30)

\* C1: calculateScore returns a total with 0 <= total <= 100 for every agent
\* row the store can hold (negative karma and a future created_at included).
C1_TotalInRange ==
    ret.op = "calculateScore" => (0 <= ret.value /\ ret.value <= 100)

\* the karma factor and the age factor as the claims state them: clamped to
\* [0, 30] and to [0, 20]
KarmaFactor == Max(0, Min(KarmaOrZero(RetRow.moltbook_karma) \div 100, 30))
AgeFactor == Max(0, Min(RetDays, 20))

\* C2: calculateScore equals min(V + K + A + Q, 100) with V = 20 for a
\* verified agent and 0 otherwise, K the karma factor, A the age factor and Q
\* the vouch factor, each clamped on its own; V + K + A + Q never exceeds
\* 100, so the outer cap never changes the result.  Verified, karma 1500, 10
\* days old and 2 verified vouchers give 55; every factor at its maximum
\* gives 100.
C2_SumOfFactors ==
    RetScored =>
        LET sum == FactorV + KarmaFactor + AgeFactor + FactorQ
        IN  /\ ret.value = Min(sum, 100)
            /\ sum <= 100
            /\ ret.value = sum
            /\ ( /\ RetRow.moltbook_verified
                 /\ RetRow.moltbook_karma = Some(1500)
                 /\ RetDays = 10
                 /\ Cardinality(QualifyingVouchers(ret.id)) = 2
                 => ret.value = 55 )
            /\ ( /\ RetRow.moltbook_verified
                 /\ RetRow.moltbook_karma = Some(10000)
                 /\ RetDays >= 20
                 /\ Cardinality(QualifyingVouchers(ret.id)) >= 6
                 => ret.value = 100 )

\* C4: the vouch factor of calculateScore is min(5 * n, 30), n the number of
\* incoming edges whose voucher is verified; edges from unverified vouchers
\* add nothing and the voucher's status does not matter.
C4_VouchFactor ==
    RetScored =>
        ret.value - RowScore(RetRow, ret.clock)
            = Min(5 * Cardinality(QualifyingVouchers(ret.id)), 30)

\* scored with unverified vouchers present and suspended verified vouchers
\* below the cap
C4_Witness ==
    /\ RetScored
    /\ Cardinality(UnverifiedVouchers(ret.id)) = 2
    /\ Cardinality(QualifyingVouchers(ret.id)) = 3
    /\ \A i \in QualifyingVouchers(ret.id) : agents[i].status = "suspended"
    /\ ret.value - RowScore(RetRow, ret.clock) = 15

\* C5: the karma factor is floor(karma / 100) clamped to [0, 30], NULL karma
\* counting as 0; it is monotonic in karma and 30 from karma 3000 upward.
C5_KarmaFactor ==
    /\ RetScored =>
          ret.value - (FactorV + FactorA + FactorQ)
              = Max(0, Min(KarmaOrZero(RetRow.moltbook_karma) \div 100, 30))
    /\ \A k1, k2 \in KarmaInputs :
          KarmaOrZero(k1) <= KarmaOrZero(k2) => KarmaPoints(k1) <= KarmaPoints(k2)
    /\ \A k \in KarmaInputs : KarmaOrZero(k) >= 3000 => KarmaPoints(k) = 30

\* C6: the age factor is the number of full days since created_at clamped to
\* [0, 20]; it is 0, never negative, when created_at lies in the future.
C6_AgeFactor ==
    RetScored =>
        ret.value - (FactorV + FactorK + FactorQ) = Max(0, Min(RetDays, 20))

----------------------------------------------------------------------------
(* Claims about the routes, checked under Spec *)

VoucherOk(from) == from \in DOMAIN agents /\ agents[from].moltbook_verified
TargetOk(to) == to \in DOMAIN agents
PostInsert == {"count", "calcRow", "calcVouches", "save"}
VouchRequests == {r \in BagToSet(req) : r.op = "vouch"}

\* C3: the breakdown returned by GET /v1/agents/:id/trust satisfies
\* factors.moltbook_verified + factors.karma + factors.age + factors.vouches
\* = score in every reachable state.
C3_BreakdownSumsToScore ==
    (resp.op = "trust" /\ resp.status = 200) =>
        resp.details.factors.moltbook_verified + resp.details.factors.karma
            + resp.details.factors.age + resp.details.factors.vouches
          = resp.details.score

\* C7: a vouch request is decided by the first failing check, in the order
\* voucher missing or unverified (403), recipient missing (404), from = to
\* (400), existing edge (409), else success (200); an unverified agent
\* vouching for itself gets 403.
C7_CheckOrder ==
    /\ resp.op = "vouch" =>
          /\ resp.status \in {403, 404, 400, 409, 200}
          /\ resp.status = 403 => ~VoucherOk(resp.from)
          /\ resp.status = 404 => VoucherOk(resp.from) /\ ~TargetOk(resp.to)
          /\ resp.status = 400 =>
                VoucherOk(resp.from) /\ TargetOk(resp.to) /\ resp.from = resp.to
          /\ resp.status \in {409, 200} =>
                /\ VoucherOk(resp.from) /\ TargetOk(resp.to)
                /\ resp.from # resp.to
                /\ BagIn(Edge(resp.from, resp.to), vouches)
    /\ \A r \in VouchRequests :
          /\ VoucherOk(r.from)
          /\ r.pc # "target" => TargetOk(r.to) /\ r.from # r.to
          /\ r.pc \in PostInsert => BagIn(Edge(r.from, r.to), vouches)

\* an unverified, registered agent vouching for itself was answered 403
C7_Witness ==
    /\ resp.op = "vouch" /\ resp.status = 403
    /\ resp.from = resp.to
    /\ resp.from \in DOMAIN agents

\* C8: a vouch with from = to is rejected whatever the agent's verification
\* state, so no reachable state holds an edge with from_agent_id = to_agent_id.
C8_NoSelfVouch ==
    /\ \A e \in BagToSet(vouches) : e.from_agent_id # e.to_agent_id
    /\ (resp.op = "vouch" /\ resp.from = resp.to) => resp.status \in {403, 400}
    /\ \A r \in VouchRequests : r.from = r.to => r.pc = "target"

\* a verified agent vouching for itself was answered 400
C8_Witness ==
    /\ resp.op = "vouch" /\ resp.status = 400
    /\ resp.from = resp.to
    /\ VoucherOk(resp.from)

\* the request r ran its next storage statement in this step
Ran(r) == r \in BagToSet(req) /\ CopiesIn(r, req') < CopiesIn(r, req)

\* C9: addVouch(A, B) after an earlier addVouch(A, B) succeeded fails with the
\* duplicate-edge error (409) and leaves the edge set and B's vouch_count as
\* they were.
C9_DuplicateRejected ==
    [][ /\ \A r \in VouchRequests :
              ( /\ r.pc = "insert"
                /\ BagIn(Edge(r.from, r.to), vouches)
                /\ Ran(r) )
              => /\ resp' = Resp("vouch", r.from, r.to, 409, 0, NoDetails)
                 /\ vouches' = vouches
                 /\ agents' = agents
        /\ (resp'.op = "vouch" /\ resp'.status = 409)
              => /\ BagIn(Edge(resp'.from, resp'.to), vouches)
                 /\ vouches' = vouches
                 /\ agents' = agents
      ]_vars

\* a second vouch for a pair was answered 409 with no request in flight, the
\* pair's edge stored once and the recipient's vouch_count still 1
C9_Witness ==
    /\ resp.op = "vouch" /\ resp.status = 409
    /\ req = EmptyBag
    /\ CopiesIn(Edge(resp.from, resp.to), vouches) = 1
    /\ agents[resp.to].vouch_count = 1

\* the requests for the pair (from, to) whose insert succeeded and that have
\* not been answered yet
Winning(from, to) ==
    {r \in VouchRequests : r.from = from /\ r.to = to /\ r.pc \in PostInsert}

CountPending(to) ==
    SumCopies({r \in VouchRequests : r.to = to /\ r.pc = "count"}, req)

\* C10: of two concurrent vouch requests for the same pair (from, to), under
\* any interleaving of their storage statements, exactly one succeeds and the
\* other gets the duplicate-edge error; the store ends with one edge (from, to)
\* and to's vouch_count raised by exactly 1.
C10_ConcurrentSamePair ==
    /\ [] ( /\ \A e \in BagToSet(vouches) : CopiesIn(e, vouches) = 1
            /\ \A r \in VouchRequests :
                  r.pc \in PostInsert =>
                      SumCopies(Winning(r.from, r.to), req) = 1
            /\ \A to \in DOMAIN agents :
                  agents[to].vouch_count + CountPending(to)
                      = IncomingCount(vouches, to) )
    /\ [][ \A r \in VouchRequests :
              (r.pc = "insert" /\ Ran(r)) =>
                  IF BagIn(Edge(r.from, r.to), vouches)
                  THEN /\ resp'.op = "vouch" /\ resp'.status = 409
                       /\ vouches' = vouches
                  ELSE /\ resp' = NoResp
                       /\ vouches' = vouches (+) SetToBag({Edge(r.from, r.to)})
                       /\ SumCopies(Winning(r.from, r.to), req)' = 1
         ]_vars

\* two requests for the same pair were in flight together: one was answered
\* 409 while the other, whose insert succeeded, was still running
C10_Witness ==
    /\ resp.op = "vouch" /\ resp.status = 409
    /\ \E r \in VouchRequests :
          /\ r.from = resp.from /\ r.to = resp.to
          /\ r.pc = "count"
          /\ agents[r.to].vouch_count = 0
    /\ CopiesIn(Edge(resp.from, resp.to), vouches) = 1

\* C11: a successful addVouch(from, to) adds exactly the edge (from, to) and
\* raises to's vouch_count by exactly 1; every other edge and every other
\* agent's vouch_count (from's included) stay as they were.
C11_AddVouchFrame ==
    [][ \A r \in VouchRequests :
          /\ ( /\ r.pc = "insert" /\ Ran(r)
                /\ ~BagIn(Edge(r.from, r.to), vouches) )
              => /\ \A e \in BagToSet(vouches) \cup BagToSet(vouches') :
                       CopiesIn(e, vouches')
                         = CopiesIn(e, vouches)
                             + (IF e = Edge(r.from, r.to) THEN 1 ELSE 0)
                 /\ BagIn(Edge(r.from, r.to), vouches')
                 /\ agents' = agents
          /\ (r.pc = "count" /\ Ran(r))
              => /\ vouches' = vouches
                 /\ DOMAIN agents' = DOMAIN agents
                 /\ \A id \in DOMAIN agents :
                       agents'[id].vouch_count
                         = agents[id].vouch_count + (IF id = r.to THEN 1 ELSE 0)
      ]_vars

\* addVouch(from, to) has just completed on a store that already held the
\* edge (to, from): two edges, and both counters at 1
C11_Witness ==
    \E r \in VouchRequests :
        /\ r.pc = "calcRow"
        /\ vouches = SetToBag({Edge(r.from, r.to), Edge(r.to, r.from)})
        /\ agents[r.to].vouch_count = 1
        /\ agents[r.from].vouch_count = 1

\* C12: in every reachable state, also after a storage failure between the
\* edge insert and the counter update of addVouch and under interleaved
\* vouch requests, each agent's vouch_count equals the number of vouch edges
\* whose to_agent_id is that agent.
C12_CountMatchesEdges ==
    \A id \in DOMAIN agents :
        agents[id].vouch_count = IncomingCount(vouches, id)

\* C13: on a successful vouch request the score persisted for the recipient
\* and returned as new_trust_score was computed after the new edge was
\* inserted and counts that edge.
C13_RecomputeAfterWrite ==
    [][ \A r \in VouchRequests :
          /\ (r.pc = "calcVouches" /\ Ran(r))
              => /\ BagIn(Edge(r.from, r.to), vouches)
                 /\ r.from \in QualifyingVouchers(r.to)
                 /\ [r EXCEPT
                       !.pc = "save",
                       !.score =
                          Min(r.score
                                + Min(5 * Cardinality(QualifyingVouchers(r.to)),
                                      30),
                              100)] \in BagToSet(req')
          /\ (r.pc = "save" /\ Ran(r))
              => /\ resp' = Resp("vouch", r.from, r.to, 200, r.score, NoDetails)
                 /\ agents'[r.to].trust_score = r.score
                 /\ BagIn(Edge(r.from, r.to), vouches)
      ]_vars

\* a vouch was answered 200 with a score that holds the 5 points of the
\* edge just added: the recipient is an unverified agent registered the
\* same day
C13_Witness ==
    /\ resp.op = "vouch" /\ resp.status = 200
    /\ resp.score = 5
    /\ agents[resp.to].trust_score = 5
    /\ IncomingCount(vouches, resp.to) = 1

\* the times at which a stored score can have been computed
ClockValues == {k * HalfDay : k \in 0..MaxTicks}

\* C14: when vouch requests from different verified vouchers for the same
\* recipient run concurrently, then once all of them have completed the
\* recipient's stored trust_score is the score computed from the final edge
\* set: no write puts back a score computed from a smaller vouch count.
C14_FinalScoreFromFinalEdges ==
    req = EmptyBag =>
        \A id \in DOMAIN agents :
            \E t \in ClockValues :
                t <= now
                /\ agents[id].trust_score = calculateScore(agents, vouches, t, id)

\* C15: for a verified voucher and a recipient without that edge, a
\* successful vouch request returns the recipient's score before the vouch
\* plus 5 when the recipient's vouch factor was below 30, and the score
\* before the vouch when the vouch factor was already 30.  The score before
\* the vouch is the recipient's stored trust_score, the one GET /trust
\* answers, as the request's UPDATE finds it.
C15_VouchAddsFive ==
    [][ \A r \in VouchRequests :
          (r.pc = "save" /\ Ran(r)) =>
              LET before == agents[r.to].trust_score
                  factor ==
                    Min(5 * Cardinality(QualifyingVouchers(r.to) \ {r.from}),
                        30)
              IN  /\ resp'.op = "vouch" /\ resp'.status = 200
                  /\ resp'.score = (IF factor < 30 THEN before + 5 ELSE before)
      ]_vars

\* the score of ret.id computed on the store without the edge from i
ScoreWithout(i) ==
    calculateScore(agents, vouches (-) SetToBag({Edge(i, ret.id)}), ret.clock,
                   ret.id)

\* C16: the qualifying vouch count uses each voucher's verification flag at
\* the time the score is computed, not at the time the edge was created: an
\* edge created while its voucher was unverified contributes 0 until the
\* voucher becomes verified and 5, subject to the cap of 30, in every score
\* computed afterwards.
C16_FlagAtScoringTime ==
    [][ \A r \in BagToSet(req) :
          (r.op = "calculateScore" /\ Ran(r)) =>
              /\ ret'.op = "calculateScore" /\ ret'.id = r.to
              /\ \A i \in DOMAIN agents :
                    BagIn(Edge(i, r.to), vouches) =>
                        ret'.value
                          - calculateScore(agents,
                                vouches (-) SetToBag({Edge(i, r.to)}),
                                r.clock, r.to)
                          = IF /\ agents[i].moltbook_verified
                               /\ Cardinality(QualifyingVouchers(r.to) \ {i}) < 6
                            THEN 5 ELSE 0
      ]_vars

\* the recipient was scored after the voucher whose edge was stored while it
\* was unverified had verified, and the edge now adds 5
C16_Witness ==
    /\ RetScored
    /\ req = EmptyBag
    /\ resp.op = "verify" /\ resp.status = 200
    /\ \E i \in QualifyingVouchers(ret.id) :
          /\ agents[i].moltbook_username = VoucherNames[1]
          /\ ret.value - ScoreWithout(i) = 5

\* a vouch request (from, to) handled now is rejected as unauthorized (403),
\* as a self-vouch (400) or as a duplicate (409)
RejectedNow(from, to) ==
    \/ ~VoucherOk(from)
    \/ from = to
    \/ BagIn(Edge(from, to), vouches)

\* a vouch request (from, to) handled now passes every check
AcceptedNow(from, to) ==
    /\ VoucherOk(from)
    /\ TargetOk(to)
    /\ from # to
    /\ ~BagIn(Edge(from, to), vouches)

\* C17: a vouch request rejected as duplicate, self-vouch or unauthorized is
\* permanent for its arguments: in every later state, whatever operations
\* ran in between, the same (from, to) is rejected again.
C17_RejectionsPermanent ==
    [][ \A from \in Ids, to \in Ids :
            RejectedNow(from, to) => ~AcceptedNow(from, to)' ]_vars

\* C17 as amended: duplicate and self-vouch rejections are permanent; an
\* unauthorized rejection lasts as long as the voucher is unverified, and only
\* the update of a successful verify request for that voucher ends it.
C17_PermanentUntilVerified ==
    [][ /\ \A from \in Ids, to \in Ids :
              /\ BagIn(Edge(from, to), vouches)
                    => BagIn(Edge(from, to), vouches')
              /\ (RejectedNow(from, to) /\ AcceptedNow(from, to)')
                    => /\ ~VoucherOk(from) /\ VoucherOk(from)'
                       /\ \E r \in BagToSet(req) :
                             /\ r.op = "verify" /\ r.pc = "mark"
                             /\ r.to = from /\ Ran(r)
        /\ (resp'.op = "vouch" /\ resp'.status = 200)
              => /\ resp'.from # resp'.to
                 /\ VoucherOk(resp'.from)
                 /\ \E r \in VouchRequests :
                       /\ r.from = resp'.from /\ r.to = resp'.to
                       /\ r.pc = "save" /\ Ran(r)
      ]_vars

\* a vouch was repeated after the first one had completed and half a day
\* had passed, and was answered 409 again
C17_Witness ==
    /\ resp.op = "vouch" /\ resp.status = 409
    /\ req = EmptyBag
    /\ now > 0
    /\ agents[resp.to].trust_score
          = calculateScore(agents, vouches, 0, resp.to)
    /\ agents[resp.to].trust_score >= 5

\* C18: an agent's moltbook_verified flag is true only after a verification
\* attempt for that agent succeeded: a newly registered agent is unverified,
\* and no request other than a verify request whose provider lookup found
\* the agent's verification code sets the flag.
C18_VerifiedOnlyByVerify ==
    /\ [] ( \A id \in DOMAIN agents :
               agents[id].moltbook_verified
                 => /\ agents[id].moltbook_username # NoUsername
                    /\ agents[id].moltbook_karma
                         = Some(ProviderKarma(agents[id].moltbook_username)) )
    /\ [][ \A id \in DOMAIN agents' :
             /\ id \notin DOMAIN agents => ~agents'[id].moltbook_verified
             /\ ( /\ id \in DOMAIN agents
                   /\ ~agents[id].moltbook_verified
                   /\ agents'[id].moltbook_verified )
                 => \E r \in BagToSet(req) :
                       /\ r.op = "verify" /\ r.pc = "mark"
                       /\ r.to = id /\ Ran(r)
          ]_vars

\* one agent has been verified by its verify request, which has answered
\* 200, while the other registered agent is still unverified
C18_Witness ==
    /\ resp.op = "verify" /\ resp.status = 200
    /\ agents[resp.to].moltbook_verified
    /\ \E id \in DOMAIN agents : ~agents[id].moltbook_verified

\* C19: in every state reachable through the HTTP routes each agent's stored
\* trust_score is an integer in [0, 100] that is either the initial 0 or a
\* value calculateScore returned for that agent during an earlier verify or
\* vouch request; it is never written from any other source.
C19_StoredScoreDerived ==
    /\ [] ( \A id \in DOMAIN agents :
               agents[id].trust_score \in 0..100 )
    /\ [][ \A id \in DOMAIN agents' :
             /\ id \notin DOMAIN agents => agents'[id].trust_score = 0
             /\ ( /\ id \in DOMAIN agents
                   /\ agents'[id].trust_score # agents[id].trust_score )
                 => \E r \in BagToSet(req) :
                       /\ r.op \in {"verify", "vouch"}
                       /\ r.pc = "save" /\ r.to = id /\ Ran(r)
                       /\ agents'[id].trust_score = r.score
          ]_vars

\* the capabilities list of a stored agent, as parseAgent returns it
CapabilitiesOf(id) == ParseCapabilities(agents[id].capabilities)

\* C20: in every reachable state each agent's capabilities list is
\* duplicate-free, has at most 20 entries, and every entry is at most 50
\* characters drawn from lowercase a-z, digits and underscore; this holds for
\* agents as created by registration as well as after a capabilities update.
C20_CapabilitiesValid ==
    \A id \in DOMAIN agents :
        LET caps == CapabilitiesOf(id)
        IN  /\ \A i, j \in 1..Len(caps) : i # j => caps[i] # caps[j]
            /\ Len(caps) <= 20
            /\ \A i \in 1..Len(caps) :
                  /\ Len(caps[i]) <= 50
                  /\ \A k \in 1..Len(caps[i]) :
                        caps[i][k] \in LowerCase \cup Digits \cup {"_"}

\* the agents the presented header is the API key of
KeyOwner(r) ==
    {i \in DOMAIN agents : r.scheme = "Bearer" /\ r.token = ApiKeyOf(i)}

\* C21: in the authenticated vouch route an edge (from, to) is created only
\* by a request that carries a Bearer API key belonging to agent from: a
\* request with a missing, malformed or unknown key creates no edge, and no
\* caller creates an edge whose from is not the owner of the presented key.
C21_EdgeOnlyForKeyOwner ==
    [][ \A e \in BagToSet(vouches') :
            CopiesIn(e, vouches') > CopiesIn(e, vouches)
              => \E r \in VouchRequests :
                    /\ r.pc = "insert" /\ Ran(r)
                    /\ e = Edge(r.from, r.to)
                    /\ KeyOwner(r) = {e.from_agent_id}
      ]_vars

\* C22: search returns only agents whose status is active: for every
\* combination of filters no pending or suspended agent is among the
\* results, and the search leaves every row, a suspended agent's stored
\* trust_score included, as it was.
C22_SearchOnlyActive ==
    /\ [] ( resp.op = "search" =>
               \A k \in DOMAIN resp.results :
                   /\ resp.results[k].status = "active"
                   /\ agents[resp.results[k].id].status = "active" )
    /\ [][ resp'.op = "search" =>
              /\ agents' = agents
              /\ \A k \in DOMAIN resp'.results :
                    agents[resp'.results[k].id].status
                        \notin {"pending", "suspended"}
         ]_vars

\* a search without filters returned the one active agent while a suspended,
\* verified agent with the highest stored score, 75, kept that score
C22_Witness ==
    /\ resp.op = "search"
    /\ resp.query.verified = NULL /\ resp.query.min_trust = NULL
    /\ resp.query.capability = << >> /\ resp.query.limit = 20
    /\ Len(resp.results) = 1 /\ resp.results[1].id = 2
    /\ agents[1].status = "suspended" /\ agents[1].moltbook_verified
    /\ agents[1].trust_score = 75
    /\ agents[3].status = "pending"

\* C23: the vouches factor of the getDetails breakdown equals the vouch
\* factor calculateScore uses for the same agent in the same state: it
\* counts only the incoming edges from verified vouchers, not every incoming
\* edge.
C23_BreakdownVouchFactor ==
    (resp.op = "trust" /\ resp.status = 200) =>
        /\ resp.details.factors.vouches
             = Min(5 * Cardinality(QualifyingVouchers(resp.to)), 30)
        /\ resp.details.factors.vouches
             = calculateScore(agents, vouches, now, resp.to)
                 - RowScore(agents[resp.to], now)

\* the step is a direct call of calculateScore or a getDetails of the trust
\* route
ScorerCalled ==
    \/ ret' # ret /\ ret'.op = "calculateScore"
    \/ \E r \in BagToSet(req) \cup BagToSet(req') :
          r.op = "calculateScore" /\ CopiesIn(r, req') # CopiesIn(r, req)
    \/ resp' # resp /\ resp'.op = "trust"

\* C24: the scorer has no side effects: calculateScore and getDetails leave
\* every agent row (trust_score and vouch_count included) and the whole edge
\* set unchanged; a score is persisted only by the route that called.
C24_ScorerReadOnly ==
    [][ ScorerCalled =>
          /\ vouches' = vouches
          /\ DOMAIN agents' = DOMAIN agents
          /\ \A id \in DOMAIN agents :
                /\ agents'[id].trust_score = agents[id].trust_score
                /\ agents'[id].vouch_count = agents[id].vouch_count
                /\ agents'[id] = agents[id]
      ]_vars

\* calculateScore has returned 100 for a row and the trust route has
\* reported its breakdown, and the row still holds the score 0 it was
\* stored with
C24_Witness ==
    /\ ret.op = "calculateScore" /\ ret.value = 100
    /\ resp.op = "trust" /\ resp.status = 200 /\ resp.to = ret.id
    /\ resp.details.score = 0
    /\ agents[ret.id].trust_score = 0

\* C25: the scorer is total: for every agent id and every agent state
\* calculateScore returns a number and raises no error; it returns 0 when the
\* agent does not exist and a NULL karma contributes 0.
C25_ScorerTotal ==
    ret.op = "calculateScore" =>
        /\ ret.value \in Int
        /\ ret.id \notin DOMAIN agents => ret.value = 0
        /\ (RetScored /\ RetRow.moltbook_karma = NULL) =>
              ret.value = FactorV + FactorA + FactorQ

\* calculateScore was called for an id that no row of a store with eight
\* vouchers has, and returned 0
C25_Witness ==
    /\ ret.op = "calculateScore"
    /\ ret.id \notin DOMAIN agents
    /\ ret.value = 0
    /\ Cardinality(DOMAIN agents) = MaxVouchers + 1

\* C26: vouch edges are immutable and never removed: across any sequence of
\* operations the edge set only grows, every edge once present stays present
\* with the same from and to, and edges are created only by the vouch
\* operation.
C26_EdgesOnlyGrow ==
    [][ /\ \A e \in BagToSet(vouches) :
              CopiesIn(e, vouches') >= CopiesIn(e, vouches)
        /\ BagCardinality(vouches') > BagCardinality(vouches) =>
              /\ BagCardinality(vouches') = BagCardinality(vouches) + 1
              /\ \E r \in VouchRequests :
                    /\ r.pc = "insert" /\ Ran(r)
                    /\ vouches' = vouches (+) SetToBag({Edge(r.from, r.to)})
        /\ (\A r \in VouchRequests : ~(r.pc = "insert" /\ Ran(r)))
              => vouches' = vouches
      ]_vars

\* the edge (1, 2) of an earlier vouch is still stored after agent 2 has
\* verified, vouched back and half a day has passed
C26_Witness ==
    /\ vouches = SetToBag({Edge(1, 2), Edge(2, 1)})
    /\ req = EmptyBag
    /\ now > 0
    /\ resp.op = "vouch" /\ resp.status = 200 /\ resp.from = 2

\* C27: in every state reachable through the HTTP routes alone the voucher
\* of every vouch edge is verified (an edge is created only for a voucher
\* verified at that moment and no route resets moltbook_verified), so each
\* agent's vouch_count equals its qualifying vouch count.
C27_CountIsQualifyingCount ==
    /\ \A e \in BagToSet(vouches) :
          /\ e.from_agent_id \in DOMAIN agents
          /\ agents[e.from_agent_id].moltbook_verified
    /\ \A id \in DOMAIN agents :
          agents[id].vouch_count = VerifiedVouches(agents, vouches, id)

\* the search without filters, first page
Unfiltered(query) ==
    /\ query.verified = NULL /\ query.min_trust = NULL
    /\ query.capability = << >>
    /\ query.limit = 20 /\ query.offset = 0

\* C28: a successful verify request sets the agent's status to active
\* whatever its status was before, so a suspended agent that verifies again
\* becomes active and is returned by search, with no administrative step.
C28_VerifyActivates ==
    /\ [][ \A r \in BagToSet(req) :
              (r.op = "verify" /\ r.pc = "mark" /\ Ran(r)) =>
                  /\ agents'[r.to].status = "active"
                  /\ agents'[r.to].moltbook_verified
                  /\ \A id \in DOMAIN agents :
                        id # r.to => agents'[id] = agents[id]
         ]_vars
    /\ [][ (resp'.op = "verify" /\ resp'.status = 200) =>
              /\ agents'[resp'.to].status = "active"
              /\ agents'[resp'.to].moltbook_verified
              /\ \A q \in SearchQueries :
                    Unfiltered(q) => SearchWhere(agents'[resp'.to], q)
              /\ \A id \in DOMAIN agents :
                    id # resp'.to => agents'[id] = agents[id]
         ]_vars
    /\ [] ( (resp.op = "search" /\ Unfiltered(resp.query)) =>
               \A id \in DOMAIN agents :
                   agents[id].status = "active"
                     <=> \E k \in DOMAIN resp.results : resp.results[k].id = id )

\* the agent seeded as suspended has verified again and an unfiltered
\* search returns it, with the score its verify request stored
C28_Witness ==
    /\ resp.op = "search" /\ Unfiltered(resp.query)
    /\ agents[1].status = "active"
    /\ agents[1].moltbook_karma = Some(ProviderKarma(SearchNames[1]))
    /\ \E k \in DOMAIN resp.results :
          /\ resp.results[k].id = 1
          /\ resp.results[k].trust_score
               = calculateScore(agents, vouches, now, 1)

\* C29: when a verify request for agent T and a vouch request for recipient
\* T run concurrently, then once both have completed T's stored trust_score
\* equals calculateScore(T) on the final state: it reflects the verification
\* (flag and imported karma) as well as the new edge.
C29_VerifyAndVouchFinalScore ==
    req = EmptyBag =>
        \A id \in DOMAIN agents :
            ( /\ agents[id].moltbook_verified
              /\ IncomingCount(vouches, id) > 0 )
            => \E t \in ClockValues :
                  /\ t <= now
                  /\ agents[id].trust_score
                       = FinishScore(RowScore(agents[id], t),
                                     VerifiedVouches(agents, vouches, id))

\* the statements of a request that write to the store
Writing == {"mark", "count", "save"}

\* C30: every request that ends in an error response leaves the stored state
\* unchanged: a vouch request answered 403, 404, 400 or 409 and a verify
\* request answered 404 or 400 (also when the provider lookup fails, times
\* out or does not find the code) change no agent row and no edge.
C30_ErrorsLeaveState ==
    /\ [][ ( \/ resp'.op = "vouch" /\ resp'.status \in {403, 404, 400, 409}
             \/ resp'.op = "verify" /\ resp'.status \in {404, 400} )
           => /\ agents' = agents
              /\ vouches' = vouches
              /\ \A r \in BagToSet(req) :
                    Ran(r) => \/ r.op = "vouch" /\ r.pc \in {"target", "insert"}
                              \/ r.op = "verify" /\ r.pc = "provider"
         ]_vars
    /\ [][ \A r \in BagToSet(req) :
              ( /\ Ran(r)
                /\ \/ r.pc \in Writing
                   \/ r.pc = "insert" /\ vouches' # vouches )
              => /\ resp'.status \in {0, 200}
                 /\ \A r2 \in BagToSet(req') :
                       r2 \notin BagToSet(req) =>
                           r2.pc \notin {"target", "insert", "provider",
                                         "mark"}
         ]_vars

\* a verified agent's vouch for itself was answered 400 on a store that
\* holds an edge and scores written by earlier requests, which it left as
\* they were
C30_Witness ==
    /\ resp.op = "vouch" /\ resp.status = 400
    /\ BagCardinality(vouches) = 1
    /\ agents[resp.to].vouch_count = 1
    /\ agents[resp.to].trust_score
         = calculateScore(agents, vouches, now, resp.to)
    /\ agents[resp.to].trust_score > 0
    /\ req = EmptyBag

====
